---------------------------- MODULE Spec2Model ----------------------------
(***************************************************************************)
(* A model of the main loop of brutalmaze (src/brutalmaze/main.py):        *)
(* Game.__init__, Game.move and Game.loop, driven by main()'s              *)
(* `while game.loop(): pass`.                                              *)
(*                                                                         *)
(* Numbers.  Game.fps starts as float(max_fps) with an integer max_fps and *)
(* is only ever changed by -1 and +5, so it is integer-valued and is kept  *)
(* as an integer here.  Clock.get_fps() is a non-negative float m; for an  *)
(* integer fps, m < fps holds exactly when floor(m) < fps, so the measured *)
(* value is drawn from the naturals.  Velocities are reals in the source   *)
(* (floats); here a velocity v is kept as the integer v * scale, where     *)
(* scale is a multiple of fps * fps for every fps in use, so that          *)
(* distance * HERO_SPEED / fps and its product with HERO_SPEED / fps are   *)
(* exact.  Floating-point rounding is not modelled.                        *)
(***************************************************************************)
EXTENDS Integers, Sequences, FiniteSets, TLC

VARIABLES
    max_fps,    \* Game.max_fps
    fps,        \* Game.fps
    paused,     \* Game.paused
    mixer,      \* pygame.mixer.get_init() is not None
    music,      \* what pygame.mixer.music holds and plays
    pc,         \* position of main(): which statement of Game.loop runs next
    nevents,    \* the number of events the for loop of this call has taken
    event,      \* the loop variable: the event the for loop took last
    events,     \* after return False: the events the for loop never reached
    vx, vy,     \* Maze.vx, Maze.vy (scaled by Scale)
    distance,   \* Maze.distance
    size,       \* the size last given to the maze
    maze_fps,   \* the fps last given to Maze.__init__ or Maze.update
    dead,       \* Hero.dead
    firing,     \* Hero.firing
    slashing,   \* Hero.slashing
    tick_fps,   \* the argument of the last Clock.tick call
    ticks,      \* the number of calls of loop() that returned True
    scenario,   \* what calls move(): "loop", or a sequence of direct calls
    calls,      \* the number of direct calls of move() in this scenario
    v0,         \* <<vx, vy>> before the first direct call of move()
    HERO_SPEED  \* constants.HERO_SPEED (fixed from the start)

vars == <<max_fps, fps, paused, mixer, music, pc, nevents, event, events,
          vx, vy, distance, size, maze_fps, dead, firing, slashing,
          tick_fps, ticks,
          scenario, calls, v0, HERO_SPEED>>

\* the variables only the direct calls of move() use
direct == <<scenario, calls, v0>>

----------------------------------------------------------------------------
(* Bounds of the model *)

\* the largest configured 'Maximum FPS'
MaxMaxFps == 2
\* the longest list of events one pygame.fastevent.get() returns
MaxEvents == 2
\* the number of calls of loop() a behaviour runs through
MaxTicks == 3
\* the number of direct calls of move() in one phase of a scenario
MaxCalls == 14
\* the initial velocities of a scenario reach MaxV0 half accelerations
MaxV0 == 26

\* Game.fps is raised by 5 only below max_fps, so it stays within max_fps + 4
MaxFps == MaxMaxFps + 4

RECURSIVE GCD(_, _)
GCD(a, b) == IF b = 0 THEN a ELSE GCD(b, a % b)

RECURSIVE LCMUpTo(_)
LCMUpTo(n) == IF n <= 1 THEN 1
              ELSE LET l == LCMUpTo(n - 1) IN (l * n) \div GCD(l, n)

\* the scale of vx and vy: a multiple of fps * fps for every fps in 1..MaxFps
Scale == LCMUpTo(MaxFps) * LCMUpTo(MaxFps)

----------------------------------------------------------------------------
(* constants.py and misc.py *)

\* the values tried for HERO_SPEED: the constant is imported from
\* constants.py, so the model decides nothing by one value of it
HeroSpeeds == {5, 40}

sign(n) == IF n > 0 THEN 1 ELSE IF n < 0 THEN -1 ELSE 0

abs(n) == IF n < 0 THEN -n ELSE n

----------------------------------------------------------------------------
(* ConfigReader.parse_control: the key bound to each alias *)

key == [new |-> "K_F2", pause |-> "K_p", mute |-> "K_m"]

\* the keys a KEYDOWN event may carry: the bound ones and one other
Keys == {key.new, key.pause, key.mute, "K_other"}

\* the sizes of the window: config.size and what a VIDEORESIZE event may carry
Sizes == {<<1, 1>>, <<2, 1>>}

\* the values of Maze.distance
Distances == {2}

Event(t, k, w, h) == [type |-> t, key |-> k, w |-> w, h |-> h]

Events ==
    {Event("QUIT", "", 0, 0), Event("MOUSEMOTION", "", 0, 0)}
    \cup {Event("VIDEORESIZE", "", s[1], s[2]) : s \in Sizes}
    \cup {Event("KEYDOWN", k, 0, 0) : k \in Keys}

\* pygame.mixer.music after load(MUSIC), set_volume(musicvol) and play(-1),
\* and after pygame.mixer.quit()
Playing == [file |-> "MUSIC", volume |-> "musicvol", loops |-> -1]
NoMusic == [file |-> "", volume |-> "", loops |-> 0]

\* the value of the loop variable outside the for loop
NoEvent == Event("", "", 0, 0)

\* the lists of at most n events
EventLists(n) == UNION {[1..m -> Events] : m \in 0..n}

----------------------------------------------------------------------------
(* Game.move *)

\* velocity = self.maze.distance * HERO_SPEED / self.fps
Velocity(d, f, scale) == (d * HERO_SPEED * scale) \div f

\* accel = velocity * HERO_SPEED / self.fps
Accel(d, f, scale) == (Velocity(d, f, scale) * HERO_SPEED) \div f

\* MoveAxis without the clamp of the accelerating branch
MoveAxisNoClamp(v, x, stunned, velocity, accel) ==
    IF stunned \/ x = 0
    THEN LET v1 == v - sign(v) * accel
         IN  IF abs(v1) < accel * 2 THEN 0 ELSE v1
    ELSE IF x * v < 0
    THEN v + x * 2 * accel
    ELSE v + x * accel

\* MoveAxis where stunned does not force the deceleration
MoveAxisIgnoreStun(v, x, stunned, velocity, accel) ==
    IF x = 0
    THEN LET v1 == v - sign(v) * accel
         IN  IF abs(v1) < accel * 2 THEN 0 ELSE v1
    ELSE IF x * v < 0
    THEN v + x * 2 * accel
    ELSE LET v1 == v + x * accel
         IN  IF abs(v1) > velocity THEN x * velocity ELSE v1

\* MoveAxis whose opposing branch accelerates once, not twice
MoveAxisSingleAccel(v, x, stunned, velocity, accel) ==
    IF stunned \/ x = 0
    THEN LET v1 == v - sign(v) * accel
         IN  IF abs(v1) < accel * 2 THEN 0 ELSE v1
    ELSE IF x * v < 0
    THEN v + x * accel
    ELSE LET v1 == v + x * accel
         IN  IF abs(v1) > velocity THEN x * velocity ELSE v1

\* MoveAxis that takes a start from rest for an opposing input (<= for <)
MoveAxisLeqOpposing(v, x, stunned, velocity, accel) ==
    IF stunned \/ x = 0
    THEN LET v1 == v - sign(v) * accel
         IN  IF abs(v1) < accel * 2 THEN 0 ELSE v1
    ELSE IF x * v <= 0
    THEN v + x * 2 * accel
    ELSE LET v1 == v + x * accel
         IN  IF abs(v1) > velocity THEN x * velocity ELSE v1

\* MoveAxis in which a stun does not stop an opposing direction
MoveAxisStunnedOpposing(v, x, stunned, velocity, accel) ==
    IF (stunned /\ x * v >= 0) \/ x = 0
    THEN LET v1 == v - sign(v) * accel
         IN  IF abs(v1) < accel * 2 THEN 0 ELSE v1
    ELSE IF x * v < 0
    THEN v + x * 2 * accel
    ELSE LET v1 == v + x * accel
         IN  IF abs(v1) > velocity THEN x * velocity ELSE v1

\* one axis of move(): v is the axis's velocity, x its direction
MoveAxis(v, x, stunned, velocity, accel) ==
    IF stunned \/ x = 0
    THEN LET v1 == v - sign(v) * accel
         IN  IF abs(v1) < accel * 2 THEN 0 ELSE v1
    ELSE IF x * v < 0
    THEN v + x * 2 * accel
    ELSE LET v1 == v + x * accel
         IN  IF abs(v1) > velocity THEN x * velocity ELSE v1

\* move(x, y): both axes of v = <<vx, vy>>; stunned is
\* pygame.time.get_ticks() < self.maze.next_move
move(v, x, y, stunned, d, f, scale) ==
    <<MoveAxis(v[1], x, stunned, Velocity(d, f, scale), Accel(d, f, scale)),
      MoveAxis(v[2], y, stunned, Velocity(d, f, scale), Accel(d, f, scale))>>

----------------------------------------------------------------------------
(* Game.__init__ *)

Init ==
    /\ max_fps \in 1..MaxMaxFps
    /\ fps = max_fps
    /\ paused = FALSE
    /\ mixer \in BOOLEAN
    /\ music = IF mixer THEN Playing ELSE NoMusic
    /\ pc = "get"
    /\ nevents = 0
    /\ event = NoEvent
    /\ events = << >>
    /\ vx = 0
    /\ vy = 0
    /\ size \in Sizes
    /\ distance \in Distances
    /\ HERO_SPEED \in HeroSpeeds
    /\ maze_fps = max_fps
    /\ dead = FALSE
    /\ firing = FALSE
    /\ slashing = FALSE
    /\ tick_fps = 0
    /\ ticks = 0
    /\ scenario = "loop"
    /\ calls = 0
    /\ v0 = <<0, 0>>

----------------------------------------------------------------------------
(* Game.loop.  pygame.fastevent.get() returns a list of at most MaxEvents  *)
(* events.  An element of the list has no effect before the for loop       *)
(* reaches it, so each element is drawn when the loop takes it; when the   *)
(* loop returns at a QUIT, the elements it never reached are drawn too and *)
(* kept in events.                                                         *)

\* events = pygame.fastevent.get()
Get ==
    /\ pc = "get"
    /\ ticks < MaxTicks
    /\ pc' = "events"
    /\ UNCHANGED <<max_fps, fps, paused, mixer, music, nevents, event, events,
                   vx, vy, distance, size, maze_fps, dead, firing, slashing,
                   tick_fps, ticks, direct, HERO_SPEED>>

\* for event in events: the loop takes e
Take(e) ==
    /\ pc = "events"
    /\ nevents < MaxEvents
    /\ e \in Events
    /\ nevents' = nevents + 1
    /\ event' = e

\* Quit that takes the QUIT and goes on with the list
QuitGoesOn(e, rest) ==
    /\ Take(e)
    /\ e.type = "QUIT"
    /\ rest = << >>
    /\ UNCHANGED <<max_fps, fps, paused, mixer, music, pc, events, vx, vy,
                   distance, size, maze_fps, dead, firing, slashing, tick_fps,
                   ticks, direct, HERO_SPEED>>

\* event.type == QUIT: return False
Quit(e, rest) ==
    /\ Take(e)
    /\ e.type = "QUIT"
    /\ events' = rest
    /\ pc' = "exit"
    /\ UNCHANGED <<max_fps, fps, paused, mixer, music, vx, vy, distance, size,
                   maze_fps, dead, firing, slashing, tick_fps, ticks, direct,
                   HERO_SPEED>>

\* Resize that hands the maze (h, w)
ResizeSwapped(e) ==
    /\ Take(e)
    /\ e.type = "VIDEORESIZE"
    /\ size' = <<e.h, e.w>>
    /\ UNCHANGED <<max_fps, fps, paused, mixer, music, pc, events, vx, vy,
                   distance, maze_fps, dead, firing, slashing, tick_fps,
                   ticks, direct, HERO_SPEED>>

\* event.type == VIDEORESIZE: self.maze.resize((event.w, event.h))
Resize(e) ==
    /\ Take(e)
    /\ e.type = "VIDEORESIZE"
    /\ size' = <<e.w, e.h>>
    /\ UNCHANGED <<max_fps, fps, paused, mixer, music, pc, events, vx, vy,
                   distance, maze_fps, dead, firing, slashing, tick_fps,
                   ticks, direct, HERO_SPEED>>

\* NewGame that also clears paused
NewGameUnpaused(e) ==
    /\ Take(e)
    /\ e.type = "KEYDOWN"
    /\ e.key = key.new
    /\ maze_fps' = fps
    /\ vx' = 0
    /\ vy' = 0
    /\ dead' = FALSE
    /\ firing' = FALSE
    /\ slashing' = FALSE
    /\ paused' = FALSE
    /\ UNCHANGED <<max_fps, fps, mixer, music, pc, events, distance, size,
                   tick_fps, ticks, direct, HERO_SPEED>>

\* NewGame that hands the maze max_fps
NewGameMaxFps(e) ==
    /\ Take(e)
    /\ e.type = "KEYDOWN"
    /\ e.key = key.new
    /\ maze_fps' = max_fps
    /\ vx' = 0
    /\ vy' = 0
    /\ dead' = FALSE
    /\ firing' = FALSE
    /\ slashing' = FALSE
    /\ UNCHANGED <<max_fps, fps, paused, mixer, music, pc, events, distance,
                   size, tick_fps, ticks, direct, HERO_SPEED>>

\* event.key == self.key['new']: self.maze.__init__(self.fps)
NewGame(e) ==
    /\ Take(e)
    /\ e.type = "KEYDOWN"
    /\ e.key = key.new
    /\ maze_fps' = fps
    /\ vx' = 0
    /\ vy' = 0
    /\ dead' = FALSE
    /\ firing' = FALSE
    /\ slashing' = FALSE
    /\ UNCHANGED <<max_fps, fps, paused, mixer, music, pc, events, distance,
                   size, tick_fps, ticks, direct, HERO_SPEED>>

\* TogglePause without the guard on self.hero.dead
TogglePauseDead(e) ==
    /\ Take(e)
    /\ e.type = "KEYDOWN"
    /\ e.key # key.new
    /\ e.key = key.pause
    /\ paused' = ~paused
    /\ UNCHANGED <<max_fps, fps, mixer, music, pc, events, vx, vy, distance,
                   size, maze_fps, dead, firing, slashing, tick_fps, ticks,
                   direct, HERO_SPEED>>

\* event.key == self.key['pause'] and not self.hero.dead: self.paused ^= True
TogglePause(e) ==
    /\ Take(e)
    /\ e.type = "KEYDOWN"
    /\ e.key # key.new
    /\ e.key = key.pause /\ ~dead
    /\ paused' = ~paused
    /\ UNCHANGED <<max_fps, fps, mixer, music, pc, events, vx, vy, distance,
                   size, maze_fps, dead, firing, slashing, tick_fps, ticks,
                   direct, HERO_SPEED>>

\* ToggleMute that always shuts the mixer down
ToggleMuteOff(e) ==
    /\ Take(e)
    /\ e.type = "KEYDOWN"
    /\ e.key # key.new
    /\ ~(e.key = key.pause /\ ~dead)
    /\ e.key = key.mute
    /\ mixer' = FALSE
    /\ music' = NoMusic
    /\ UNCHANGED <<max_fps, fps, paused, pc, events, vx, vy, distance, size,
                   maze_fps, dead, firing, slashing, tick_fps, ticks, direct,
                   HERO_SPEED>>

\* event.key == self.key['mute']: pygame.mixer.init(...) or pygame.mixer.quit()
ToggleMute(e) ==
    /\ Take(e)
    /\ e.type = "KEYDOWN"
    /\ e.key # key.new
    /\ ~(e.key = key.pause /\ ~dead)
    /\ e.key = key.mute
    /\ mixer' = IF ~mixer THEN TRUE ELSE FALSE
    /\ music' = IF ~mixer THEN Playing ELSE NoMusic
    /\ UNCHANGED <<max_fps, fps, paused, pc, events, vx, vy, distance, size,
                   maze_fps, dead, firing, slashing, tick_fps, ticks, direct,
                   HERO_SPEED>>

\* an event no branch of the loop handles
Ignore(e) ==
    /\ Take(e)
    /\ \/ e.type \notin {"QUIT", "VIDEORESIZE", "KEYDOWN"}
       \/ /\ e.type = "KEYDOWN"
          /\ e.key # key.new
          /\ ~(e.key = key.pause /\ ~dead)
          /\ e.key # key.mute
    /\ UNCHANGED <<max_fps, fps, paused, mixer, music, pc, events, vx, vy,
                   distance, size, maze_fps, dead, firing, slashing, tick_fps,
                   ticks, direct, HERO_SPEED>>

\* the list is exhausted: the for loop ends
EndFor ==
    /\ pc = "events"
    /\ nevents' = 0
    /\ event' = NoEvent
    /\ pc' = "input"
    /\ UNCHANGED <<max_fps, fps, paused, mixer, music, events, vx, vy,
                   distance, size, maze_fps, dead, firing, slashing, tick_fps,
                   ticks, direct, HERO_SPEED>>

\* InputDead that releases the attacks of a dead hero
InputDeadReleases ==
    /\ pc = "input"
    /\ dead
    /\ firing' = FALSE
    /\ slashing' = FALSE
    /\ pc' = "fps"
    /\ UNCHANGED <<max_fps, fps, paused, mixer, music, nevents, event, events,
                   vx, vy, distance, size, maze_fps, dead, tick_fps, ticks,
                   direct, HERO_SPEED>>

\* self.hero.dead: neither move() nor the assignments to hero.firing and
\* hero.slashing run
InputDead ==
    /\ pc = "input"
    /\ dead
    /\ pc' = "fps"
    /\ UNCHANGED <<max_fps, fps, paused, mixer, music, nevents, event, events,
                   vx, vy, distance, size, maze_fps, dead, firing, slashing,
                   tick_fps, ticks, direct, HERO_SPEED>>

\* the hero is alive and self.fps is 0.0: the divisions of move() raise
\* ZeroDivisionError, which leaves main()
InputError ==
    /\ pc = "input"
    /\ ~dead
    /\ fps = 0
    /\ pc' = "error"
    /\ UNCHANGED <<max_fps, fps, paused, mixer, music, nevents, event, events,
                   vx, vy, distance, size, maze_fps, dead, firing, slashing,
                   tick_fps, ticks, direct, HERO_SPEED>>

\* the hero is alive: self.move(x, y); self.hero.firing = ...;
\* self.hero.slashing = ...
\* x is keys[left] - keys[right], y is keys[up] - keys[down], shot and slash
\* the pressed state of the key or mouse button bound to the alias
Input(x, y, shot, slash, stunned) ==
    /\ pc = "input"
    /\ ~dead
    /\ fps # 0
    /\ LET v == move(<<vx, vy>>, x, y, stunned, distance, fps, Scale)
       IN  vx' = v[1] /\ vy' = v[2]
    /\ firing' = shot
    /\ slashing' = slash
    /\ pc' = "fps"
    /\ UNCHANGED <<max_fps, fps, paused, mixer, music, nevents, event, events,
                   distance, size, maze_fps, dead, tick_fps, ticks, direct,
                   HERO_SPEED>>

\* AdjustedFps that raises the rate while paused too
AdjustedFpsPaused(new_fps, f, mx, p) ==
    IF new_fps < f THEN f - 1
    ELSE IF f < mx THEN f + 5
    ELSE f

\* AdjustedFps that raises the rate from max_fps too
AdjustedFpsFromMax(new_fps, f, mx, p) ==
    IF new_fps < f THEN f - 1
    ELSE IF f <= mx /\ ~p THEN f + 5
    ELSE f

\* the rate adjustment: new_fps is self.clock.get_fps()
AdjustedFps(new_fps, f, mx, p) ==
    IF new_fps < f THEN f - 1
    ELSE IF f < mx /\ ~p THEN f + 5
    ELSE f

AdjustFps(new_fps) ==
    /\ pc = "fps"
    /\ fps' = AdjustedFps(new_fps, fps, max_fps, paused)
    /\ pc' = "update"
    /\ UNCHANGED <<max_fps, paused, mixer, music, nevents, event, events, vx,
                   vy, distance, size, maze_fps, dead, firing, slashing,
                   tick_fps, ticks, direct, HERO_SPEED>>

\* Update that hands the maze the rate of before the adjustment, the one the
\* last Clock.tick call had
UpdatePreAdjustment(dies) ==
    /\ pc = "update"
    /\ IF paused
       THEN UNCHANGED <<maze_fps, dead>>
       ELSE /\ maze_fps' = tick_fps
            /\ dead' = (dead \/ dies)
    /\ pc' = "tick"
    /\ UNCHANGED <<max_fps, fps, paused, mixer, music, nevents, event, events,
                   vx, vy, distance, size, firing, slashing, tick_fps, ticks,
                   direct, HERO_SPEED>>

\* Update that runs the maze while paused too
UpdateWhilePaused(dies) ==
    /\ pc = "update"
    /\ maze_fps' = fps
    /\ dead' = (dead \/ dies)
    /\ pc' = "tick"
    /\ UNCHANGED <<max_fps, fps, paused, mixer, music, nevents, event, events,
                   vx, vy, distance, size, firing, slashing, tick_fps, ticks,
                   direct, HERO_SPEED>>

\* if not self.paused: self.maze.update(self.fps)   (the hero may die in it)
Update(dies) ==
    /\ pc = "update"
    /\ IF paused
       THEN UNCHANGED <<maze_fps, dead>>
       ELSE /\ maze_fps' = fps
            /\ dead' = (dead \/ dies)
    /\ pc' = "tick"
    /\ UNCHANGED <<max_fps, fps, paused, mixer, music, nevents, event, events,
                   vx, vy, distance, size, firing, slashing, tick_fps, ticks,
                   direct, HERO_SPEED>>

\* self.clock.tick(self.fps); return True
Tick ==
    /\ pc = "tick"
    /\ tick_fps' = fps
    /\ ticks' = ticks + 1
    /\ pc' = "get"
    /\ UNCHANGED <<max_fps, fps, paused, mixer, music, nevents, event, events,
                   vx, vy, distance, size, maze_fps, dead, firing, slashing,
                   direct, HERO_SPEED>>

Next ==
    \/ Get
    \/ \E e \in Events, rest \in EventLists(MaxEvents - nevents - 1) :
           Quit(e, rest)
    \/ \E e \in Events : Resize(e)
    \/ \E e \in Events : NewGame(e)
    \/ \E e \in Events : TogglePause(e)
    \/ \E e \in Events : ToggleMute(e)
    \/ \E e \in Events : Ignore(e)
    \/ EndFor
    \/ InputDead
    \/ InputError
    \/ \E x, y \in -1..1, shot, slash, stunned \in BOOLEAN :
           Input(x, y, shot, slash, stunned)
    \/ \E new_fps \in 0..MaxFps : AdjustFps(new_fps)
    \/ \E dies \in BOOLEAN : Update(dies)
    \/ Tick

Spec == Init /\ [][Next]_vars

----------------------------------------------------------------------------
(* Direct calls of Game.move with distance and fps held constant: the     *)
(* velocities are scaled by fps * fps.  A scenario fixes what the caller  *)
(* supplies: "stunned" has get_ticks() < next_move on every call, "ramp"  *)
(* starts at rest and holds x = 1, "reverse" follows a ramp that reached  *)
(* the velocity bound and holds x = -1, "free" supplies anything.         *)

\* the rates and distances of the scenarios
MoveFps == {8, 60}
MoveDistances == {100}

MoveScale(f) == f * f

\* the initial velocities of one axis: multiples of half an acceleration
V0Axis(d, f) ==
    {j * (Accel(d, f, MoveScale(f)) \div 2) : j \in -MaxV0..MaxV0}

InitMove ==
    /\ scenario \in {"stunned", "ramp", "free"}
    /\ fps \in MoveFps
    /\ distance \in MoveDistances
    /\ HERO_SPEED \in HeroSpeeds
    /\ v0 \in IF scenario = "stunned"
              THEN V0Axis(distance, fps) \X V0Axis(distance, fps)
              ELSE {<<0, 0>>}
    /\ vx = v0[1]
    /\ vy = v0[2]
    /\ calls = 0
    /\ pc = "move"
    /\ max_fps = fps
    /\ paused = FALSE
    /\ mixer = TRUE
    /\ music = Playing
    /\ nevents = 0
    /\ event = NoEvent
    /\ events = << >>
    /\ size \in {s \in Sizes : s[1] = 1}
    /\ maze_fps = fps
    /\ dead = FALSE
    /\ firing = FALSE
    /\ slashing = FALSE
    /\ tick_fps = 0
    /\ ticks = 0

\* the scenario after a call with direction x and stun flag stunned ("" when
\* the scenario does not make that call)
After(x, stunned) ==
    CASE scenario = "stunned" -> IF stunned THEN "stunned" ELSE ""
      [] scenario = "ramp" ->
            IF stunned THEN ""
            ELSE IF x = 1 THEN "ramp"
            ELSE IF x = -1 /\ vx = Velocity(distance, fps, MoveScale(fps))
                 THEN "reverse"
            ELSE ""
      [] scenario = "reverse" -> IF ~stunned /\ x = -1 THEN "reverse" ELSE ""
      [] scenario = "free" -> "free"
      [] OTHER -> ""

\* self.move(x, y)
MoveCall(x, y, stunned) ==
    /\ pc = "move"
    /\ After(x, stunned) # ""
    /\ scenario' = After(x, stunned)
    /\ IF scenario' = scenario
       THEN calls < MaxCalls /\ calls' = calls + 1
       ELSE calls' = 1
    /\ LET v == move(<<vx, vy>>, x, y, stunned, distance, fps, MoveScale(fps))
       IN  vx' = v[1] /\ vy' = v[2]
    /\ UNCHANGED <<max_fps, fps, paused, mixer, music, pc, nevents, event,
                   events, distance, size, maze_fps, dead, firing, slashing,
                   tick_fps, ticks, v0, HERO_SPEED>>

NextMove == \E x, y \in -1..1, stunned \in BOOLEAN : MoveCall(x, y, stunned)

SpecMove == InitMove /\ [][NextMove]_vars

----------------------------------------------------------------------------
(* Properties *)

Min(a, b) == IF a < b THEN a ELSE b

CeilDiv(a, b) == (a + b - 1) \div b

QuitEvent == Event("QUIT", "", 0, 0)

KeyDown(k) == Event("KEYDOWN", k, 0, 0)

\* C1: in every reachable state of the loop the target rate fps never
\* exceeds max_fps.
C1_FpsAtMostMax == fps <= max_fps

\* C2: in every reachable state of the loop fps is strictly greater than 0,
\* so that the divisions of move() never see a zero rate.
C2_FpsPositive == fps > 0

\* the rate C3 claims for one adjustment
ClaimedFps(new_fps, f, mx, p) ==
    IF new_fps < f THEN f - 1
    ELSE IF ~p THEN Min(mx, f + 5)
    ELSE f

\* C3: whenever the rate adjustment is about to run with fps in
\* (0, max_fps], it leaves, for every measured value, fps - 1 if
\* measured < fps, else min(max_fps, fps + 5) if not paused, else fps.
C3_AdjustmentRule ==
    (pc = "fps" /\ 0 < fps /\ fps <= max_fps) =>
        \A new_fps \in 0..MaxFps :
            AdjustedFps(new_fps, fps, max_fps, paused)
                = ClaimedFps(new_fps, fps, max_fps, paused)

\* a step of the loop in which move() runs
MoveStep == pc = "input" /\ pc' = "fps" /\ ~dead

\* v is within the velocity bound of rate f
Within(v, f) == abs(v) <= Velocity(distance, f, Scale)

\* from v to w is a step of the double-acceleration branch at rate f
Opposed(v, w, f) == v # 0 /\ w = v - sign(v) * 2 * Accel(distance, f, Scale)

\* C4 as claimed: after every move() of the loop each velocity component is
\* within distance * HERO_SPEED / fps, unless the tick reversed the direction
\* (the double-acceleration branch ran on that axis).
C4_BoundAfterMove ==
    [][MoveStep =>
          /\ Within(vx', fps) \/ Opposed(vx, vx', fps)
          /\ Within(vy', fps) \/ Opposed(vy, vy', fps)]_vars

\* the component w that move() left above the bound of rate f is within it
\* again after the next move() at the same rate and distance, whatever the
\* direction and the stun flag
BackWithin(w, f) ==
    \A x \in -1..1, stunned \in BOOLEAN :
        Within(MoveAxis(w, x, stunned, Velocity(distance, f, Scale),
                        Accel(distance, f, Scale)), f)

\* what C4 says of one component, from v to w by a move() at rate f
BoundKept(v, w, f) ==
    Within(v, f) =>
        \/ Within(w, f)
        \/ Opposed(v, w, f) /\ BackWithin(w, f)

\* C4 as amended: a move() of the loop that finds a component within the
\* bound of the rate it divides by leaves it within that bound, or ran the
\* double-acceleration branch on it, and then the next move() at the same
\* rate and distance brings it back within the bound.
C4_BoundKeptAtSameRate ==
    [][MoveStep => BoundKept(vx, vx', fps) /\ BoundKept(vy, vy', fps)]_vars

\* C4 witness: move() has run at the unchanged initial rate and left vx above
\* the bound, which only a reversal does.
C4_Witness ==
    /\ pc = "fps"
    /\ ~dead
    /\ ticks >= 1
    /\ fps = max_fps
    /\ ~Within(vx, fps)

\* the acceleration and the bound of a scenario of direct calls
MoveAccel == Accel(distance, fps, MoveScale(fps))
MoveVelocity == Velocity(distance, fps, MoveScale(fps))

\* what C5 says of one component v that started at w, after the calls so far
Stopping(v, w) ==
    /\ abs(v) <= abs(w)
    /\ sign(v) * sign(w) >= 0
    /\ calls >= CeilDiv(abs(w), MoveAccel) => v = 0

\* C5: with stunned true on every call and distance and fps constant, |v| is
\* non-increasing, v never changes sign, and v is exactly 0 from call
\* ceil(|v0| / accel) on, whatever the directions supplied.
C5_StunnedStops ==
    /\ [](scenario = "stunned" => Stopping(vx, v0[1]) /\ Stopping(vy, v0[2]))
    /\ [][scenario = "stunned" =>
              abs(vx') <= abs(vx) /\ abs(vy') <= abs(vy)]_vars

\* C5 witness: a stunned run that started above the bound with a velocity
\* that is no multiple of accel has come to rest at the last call allowed.
C5_Witness ==
    /\ scenario = "stunned"
    /\ fps = 60
    /\ v0[1] = 25 * (MoveAccel \div 2)
    /\ calls = 13
    /\ vx = 0

\* C6 as claimed: at distance 100 and fps 60, one call with x = -1 from the
\* velocity bound makes v cross zero and reverse its sign.
C6_ReversesInOneTick ==
    (scenario = "reverse" /\ distance = 100 /\ fps = 60 /\ calls >= 1)
        => vx < 0

\* C6 as amended: each call with x = -1 takes 2 * accel off v while v is
\* positive; one call from the bound makes v negative exactly when
\* 2 * HERO_SPEED > fps, and v is still positive after n calls whenever
\* n * 2 * HERO_SPEED < fps.
C6_ReversesGradually ==
    scenario = "reverse" =>
        /\ (calls - 1) * 2 * MoveAccel < MoveVelocity
              => vx = MoveVelocity - calls * 2 * MoveAccel
        /\ calls = 1 => (vx < 0 <=> 2 * HERO_SPEED > fps)
        /\ calls * 2 * HERO_SPEED < fps => vx > 0

\* C6 witness: five calls with x = -1 after the ramp at distance 100 and
\* fps 60, and v is still positive.
C6_Witness ==
    /\ scenario = "reverse"
    /\ distance = 100
    /\ fps = 60
    /\ calls = 5
    /\ vx > 0

\* C7: from rest with x = 1 on every call, not stunned, v never decreases,
\* is calls * accel until that reaches the bound, and is exactly the bound
\* from call ceil(velocity / accel) on.
C7_RampReachesBound ==
    /\ [](scenario = "ramp" =>
              /\ vx = Min(calls * MoveAccel, MoveVelocity)
              /\ calls >= CeilDiv(MoveVelocity, MoveAccel)
                    => vx = MoveVelocity)
    /\ [][scenario = "ramp" /\ scenario' = "ramp" => vx' >= vx]_vars

\* C7 witness: the ramp at fps 60 has been at the bound for two calls.
C7_Witness ==
    /\ scenario = "ramp"
    /\ fps = 60
    /\ calls = 14
    /\ vx = MoveVelocity

\* C8 as claimed: the step that handles a KEYDOWN of the new-game key leaves
\* paused false.
C8_NewGameClearsPaused ==
    [][Take(KeyDown(key.new)) => ~paused']_vars

\* C8 as amended: the step that handles a KEYDOWN of the new-game key leaves
\* paused as it was.
C8_NewGameKeepsPaused ==
    [][Take(KeyDown(key.new)) => paused' = paused]_vars

\* C8 witness: the loop has just handled the new-game key while paused.
C8_Witness ==
    /\ pc = "events"
    /\ event = KeyDown(key.new)
    /\ paused
    /\ ticks >= 1

C10_QuitStopsTheLoop ==
    [][/\ pc # "exit"
       /\ Take(QuitEvent) =>
              /\ pc' = "exit"
              /\ UNCHANGED <<max_fps, fps, paused, mixer, vx, vy, distance,
                             size, maze_fps, dead, firing, slashing, tick_fps,
                             ticks>>]_vars

\* C10 witness: loop() returned False at a QUIT that a new-game key followed
\* in the list, and the hero is still dead.
C10_Witness ==
    /\ pc = "exit"
    /\ event = QuitEvent
    /\ events = <<KeyDown(key.new)>>
    /\ dead

\* C11: the loop stops only through a QUIT: no call of loop() ends in an
\* exception, so a call that takes no QUIT runs to its return True.
C11_OnlyQuitStops == pc # "error"

\* the mute key
MuteEvent == KeyDown(key.mute)

ResizeEvent(s) == Event("VIDEORESIZE", "", s[1], s[2])

\* C13: the step that handles a VIDEORESIZE to (w, h) gives the maze exactly
\* (w, h) and leaves vx, vy, fps, max_fps, paused and the audio as they were.
C13_ResizeForwardsSize ==
    [][\A s \in Sizes :
          Take(ResizeEvent(s)) =>
              /\ size' = s
              /\ UNCHANGED <<vx, vy, fps, max_fps, paused, mixer, music>>]_vars

\* C13 witness: a paused game that moves, runs below max_fps and plays its
\* music has just handled a VIDEORESIZE to (2, 1).
C13_Witness ==
    /\ pc = "events"
    /\ event = ResizeEvent(<<2, 1>>)
    /\ size = <<2, 1>>
    /\ vx # 0
    /\ fps < max_fps
    /\ paused
    /\ mixer

\* C14: the step that handles a KEYDOWN of the new-game key reinitialises
\* the maze with the current fps and leaves fps and max_fps as they were.
C14_NewGameKeepsRate ==
    [][Take(KeyDown(key.new)) =>
          /\ maze_fps' = fps
          /\ fps' = fps
          /\ max_fps' = max_fps]_vars

\* C14 witness: the first call of loop() ran paused and changed fps, so the
\* maze never saw the new rate; the second call has just handled the
\* new-game key as its first event, and the maze now has the current fps,
\* which is not max_fps.
C14_Witness ==
    /\ pc = "events"
    /\ ticks = 1
    /\ nevents = 1
    /\ event = KeyDown(key.new)
    /\ paused
    /\ fps # max_fps
    /\ maze_fps = fps

\* the steps of a call of loop() after its for loop follow one another in
\* the order move(), rate adjustment, maze update, Clock.tick
StepOrder ==
    /\ pc = "input" /\ pc' # "error" => pc' = "fps"
    /\ pc = "fps" => pc' = "update"
    /\ pc = "update" => pc' = "tick"
    /\ pc = "tick" => pc' = "get"

\* what each of these steps does with the rate
StepRates ==
    /\ pc = "input" =>
          /\ fps' = fps
          /\ ~dead /\ pc' = "fps" =>
                \E x, y \in -1..1, stunned \in BOOLEAN :
                    <<vx', vy'>> =
                        move(<<vx, vy>>, x, y, stunned, distance, fps, Scale)
    /\ pc = "fps" => UNCHANGED <<vx, vy, maze_fps, tick_fps>>
    /\ pc = "update" =>
          /\ fps' = fps
          /\ maze_fps' = IF paused THEN maze_fps ELSE fps
          /\ paused => dead' = dead
    /\ pc = "tick" =>
          /\ fps' = fps
          /\ tick_fps' = fps
          /\ ~paused => tick_fps' = maze_fps

C16_NoRiseWhilePaused == [][paused => fps' <= fps]_vars

\* C16 witness: the rate adjustment has run while paused with fps below
\* max_fps, in a call of loop() that followed one which had lowered fps.
C16_Witness ==
    /\ pc = "update"
    /\ paused
    /\ ticks >= 1
    /\ fps < max_fps
    /\ fps = tick_fps

\* the deceleration of one component v by accel
Decelerated(v, accel) ==
    IF v >= 3 * accel THEN v - accel
    ELSE IF v <= -3 * accel THEN v + accel
    ELSE 0

\* move() with stunned true, from the velocities of the state
StunnedMove(x, y) ==
    move(<<vx, vy>>, x, y, TRUE, distance, fps, MoveScale(fps))

\* C17: with stunned true the velocities move() leaves do not depend on the
\* directions: from the velocities, distance and fps of any state, every
\* direction pair gives the same (vx, vy), the deceleration of each
\* component.
C17_StunnedIgnoresDirection ==
    \A x, y \in -1..1 :
        StunnedMove(x, y) =
            <<Decelerated(vx, MoveAccel), Decelerated(vy, MoveAccel)>>

\* C17 witness: one stunned call has slowed a vx that was above the bound
\* and brought a negative vy to rest.
C17_Witness ==
    /\ scenario = "stunned"
    /\ calls = 1
    /\ v0[1] > MoveVelocity
    /\ vx = v0[1] - MoveAccel
    /\ vx > 0
    /\ v0[2] < 0
    /\ vy = 0

\* C18: in a call of loop() whose for loop leaves the hero dead, move() does
\* not run and hero.firing and hero.slashing are not assigned, so vx, vy and
\* both flags stay as they were; the rate adjustment, the maze update (if
\* not paused) and Clock.tick still run, even at a zero rate.
C18_DeadHeroSkipsInput ==
    [][dead =>
          /\ StepOrder
          /\ pc = "input" =>
                /\ pc' = "fps"
                /\ UNCHANGED <<vx, vy, firing, slashing, fps>>
          /\ pc = "fps" =>
                \E new_fps \in 0..MaxFps :
                    fps' = AdjustedFps(new_fps, fps, max_fps, paused)
          /\ pc = "update" /\ ~paused => maze_fps' = fps
          /\ pc = "tick" => tick_fps' = fps /\ ticks' = ticks + 1]_vars

\* C18 witness: the hero died moving, firing and slashing in a tick that
\* brought fps to 0; the next call of loop() has skipped its input stage.
C18_Witness ==
    /\ pc = "fps"
    /\ dead
    /\ fps = 0
    /\ firing
    /\ slashing
    /\ vx # 0
    /\ vy # 0

\* C19: with a hero that dies only inside the maze update and is alive after
\* a restart, no reachable state has the hero dead and the game paused.
C19_NeverDeadAndPaused == ~(dead /\ paused)

\* C19 witness: a call of loop() that follows another has passed its maze
\* update paused, the one step in which a hero dies.
C19_Witness ==
    /\ pc = "tick"
    /\ paused
    /\ ~dead
    /\ ticks >= 1

\* C20: fps is an integer between 0 and max_fps + 4 in every reachable
\* state; a step changes it by -1, from above 0, or by +5, from below
\* max_fps, and only the rate adjustment does.
C20_FpsRange ==
    /\ [](fps \in 0..(max_fps + 4))
    /\ [][\/ fps' = fps
          \/ pc = "fps" /\ fps' = fps - 1 /\ fps > 0
          \/ pc = "fps" /\ fps' = fps + 5 /\ fps < max_fps]_vars

\* C20 witness: fps was raised from just below max_fps to max_fps + 4.
C20_Witness ==
    /\ pc = "update"
    /\ fps = max_fps + 4
    /\ tick_fps = max_fps - 1

=============================================================================
